---- MODULE Spec2Model ----
(***************************************************************************)
(* Request handling of the emitter broker edge (internal/broker):          *)
(* onSubscribe, onUnsubscribe, onPublish and the in-band emitter requests  *)
(* (link, me), over the subscription trie, the message store and the       *)
(* per-connection links map.                                               *)
(*                                                                         *)
(* A topic is a sequence of tokens: the key, the path segments, then the   *)
(* options, e.g. <<"kA", "a", "b", "last=2">> for kA/a/b/?last=2.          *)
(***************************************************************************)
EXTENDS Integers, Sequences, FiniteSets, TLC

\* ---------------------------------------------------------------- bounds
MaxSubs == 2        \* entries the trie may hold before subscribes are held back
MaxStore == 2       \* messages the store may hold before stored publishes are held back

\* ---------------------------------------------------------------- universe
Conns == {"c1", "c2"}
Payloads == {"p1", "p2"}

\* result codes of the handlers (errors.Error values, nil = Ok)
Ok == "Ok"
ErrBadRequest == "BadRequest"
ErrUnauthorized == "Unauthorized"
ErrUnauthorizedExt == "UnauthorizedExt"
ErrForbidden == "Forbidden"
ErrServerError == "ServerError"
ErrNotFound == "NotFound"
ErrLinkInvalid == "LinkInvalid"

\* A uint32 is the pair <<high 16 bits, low 16 bits>>: U32(h, l) is h * 65536 + l.
U32(h, l) == <<h, l>>
\* a small number as a uint32
Small(n) == U32(0, n)

requestKeygen == U32(8371, 56494)     \* 548658350, hash("keygen")
requestPresence == U32(59040, 16708)  \* 3869262148, hash("presence")
requestLink == U32(40695, 46792)      \* 2667034312, hash("link")
requestMe == U32(38753, 17428)        \* 2539734036, hash("me")

\* ---------------------------------------------------------------- keys
AllowRead == "r"
AllowWrite == "w"
AllowStore == "s"
AllowLoad == "l"
AllowPresence == "p"
AllowExtend == "e"
AllowExecute == "x"
AllowAll == {AllowRead, AllowWrite, AllowStore, AllowLoad, AllowPresence, AllowExtend, AllowExecute}

\* the contracts the contract cache knows
Contracts == {1, 2}

\* What each key string decrypts to. A string outside the table does not decrypt.
KeyTable ==
  [ kA |-> [Contract |-> 1, Perms |-> {AllowRead, AllowWrite, AllowStore, AllowLoad}, Expired |-> FALSE, Signed |-> TRUE, Master |-> FALSE],
    kB |-> [Contract |-> 1, Perms |-> {AllowRead, AllowWrite}, Expired |-> FALSE, Signed |-> TRUE, Master |-> FALSE],
    kL |-> [Contract |-> 1, Perms |-> {AllowRead, AllowLoad}, Expired |-> FALSE, Signed |-> TRUE, Master |-> FALSE],
    kE |-> [Contract |-> 1, Perms |-> {AllowRead, AllowWrite, AllowStore, AllowLoad, AllowExtend}, Expired |-> FALSE, Signed |-> TRUE, Master |-> FALSE],
    kF |-> [Contract |-> 1, Perms |-> {AllowRead, AllowWrite, AllowExtend}, Expired |-> FALSE, Signed |-> TRUE, Master |-> FALSE],
    kX |-> [Contract |-> 1, Perms |-> {AllowExtend}, Expired |-> FALSE, Signed |-> TRUE, Master |-> FALSE],
    kO |-> [Contract |-> 1, Perms |-> {AllowRead, AllowWrite, AllowExtend}, Expired |-> TRUE, Signed |-> TRUE, Master |-> FALSE],
    kN |-> [Contract |-> 3, Perms |-> {AllowRead, AllowWrite}, Expired |-> FALSE, Signed |-> TRUE, Master |-> FALSE],
    kU |-> [Contract |-> 1, Perms |-> {AllowRead, AllowWrite}, Expired |-> FALSE, Signed |-> FALSE, Master |-> FALSE],
    kZ |-> [Contract |-> 2, Perms |-> {AllowRead, AllowWrite}, Expired |-> FALSE, Signed |-> TRUE, Master |-> FALSE],
    kM |-> [Contract |-> 1, Perms |-> {}, Expired |-> FALSE, Signed |-> TRUE, Master |-> TRUE],
    kMo |-> [Contract |-> 1, Perms |-> {}, Expired |-> TRUE, Signed |-> TRUE, Master |-> TRUE],
    kP |-> [Contract |-> 1, Perms |-> {AllowRead, AllowPresence}, Expired |-> FALSE, Signed |-> TRUE, Master |-> FALSE],
    kPo |-> [Contract |-> 1, Perms |-> {AllowRead, AllowPresence}, Expired |-> TRUE, Signed |-> TRUE, Master |-> FALSE],
    kPn |-> [Contract |-> 3, Perms |-> {AllowPresence}, Expired |-> FALSE, Signed |-> TRUE, Master |-> FALSE],
    kPnu |-> [Contract |-> 3, Perms |-> {AllowPresence}, Expired |-> FALSE, Signed |-> FALSE, Master |-> FALSE],
    kPu |-> [Contract |-> 1, Perms |-> {AllowPresence}, Expired |-> FALSE, Signed |-> FALSE, Master |-> FALSE],
    kEc1 |-> [Contract |-> 1, Perms |-> AllowAll, Expired |-> FALSE, Signed |-> TRUE, Master |-> FALSE],
    kEc2 |-> [Contract |-> 1, Perms |-> AllowAll, Expired |-> FALSE, Signed |-> TRUE, Master |-> FALSE],
    kFc1 |-> [Contract |-> 1, Perms |-> AllowAll, Expired |-> FALSE, Signed |-> TRUE, Master |-> FALSE],
    kFc2 |-> [Contract |-> 1, Perms |-> AllowAll, Expired |-> FALSE, Signed |-> TRUE, Master |-> FALSE] ]

KeyStrings == DOMAIN KeyTable

NoKey == [Contract |-> 0, Perms |-> {}, Expired |-> TRUE, Signed |-> FALSE, Master |-> FALSE]

\* keys.DecryptKey: the key a string decrypts to, and whether it does
Decrypts(k) == k \in KeyStrings
DecryptKey(k) == IF Decrypts(k) THEN KeyTable[k] ELSE NoKey

HasPermission(key, p) == p \in key.Perms

\* ---------------------------------------------------------------- channels
ChannelInvalid == "Invalid"
ChannelStatic == "Static"
ChannelWildcard == "Wildcard"

\* the option tokens a topic may end with, and what each parses to
\* An option value is an int64: High is the value divided by 2^32 (rounded down), Low
\* the uint32 of its low 32 bits.
Int64(high, low) == [High |-> high, Low |-> low]
Num(n) == Int64(0, Small(n))
Positive(v) == v.High > 0 \/ (v.High = 0 /\ v.Low # Small(0))
\* int(v), for a value that fits
AsInt(v) == v.Low[1] * 65536 + v.Low[2]

OptTable ==
  [ o1 |-> [Tok |-> "last=2", Key |-> "last", Value |-> Num(2)],
    o2 |-> [Tok |-> "ttl=3", Key |-> "ttl", Value |-> Num(3)],
    o3 |-> [Tok |-> "ttl=0", Key |-> "ttl", Value |-> Num(0)],
    o4 |-> [Tok |-> "ttl=4294967299", Key |-> "ttl", Value |-> Int64(1, Small(3))],
    o5 |-> [Tok |-> "me=0", Key |-> "me", Value |-> Num(0)],
    o6 |-> [Tok |-> "me=1", Key |-> "me", Value |-> Num(1)],
    o7 |-> [Tok |-> "from=1", Key |-> "from", Value |-> Num(1)],
    o8 |-> [Tok |-> "until=2", Key |-> "until", Value |-> Num(2)],
    o9 |-> [Tok |-> "zip=1", Key |-> "zip", Value |-> Num(1)],
    o10 |-> [Tok |-> "ttl=-1", Key |-> "ttl", Value |-> Int64(-1, U32(65535, 65535))],
    o11 |-> [Tok |-> "ttl=4294967296", Key |-> "ttl", Value |-> Int64(1, Small(0))] ]

OptTokens == {OptTable[i].Tok : i \in DOMAIN OptTable}

\* "name=value" -> the option, and back
ParseOption(tok) ==
  LET e == OptTable[CHOOSE i \in DOMAIN OptTable : OptTable[i].Tok = tok]
  IN [Key |-> e.Key, Value |-> e.Value]
FormatOption(o) ==
  OptTable[CHOOSE i \in DOMAIN OptTable : OptTable[i].Key = o.Key /\ OptTable[i].Value = o.Value].Tok

\* the hash of a path segment (the elements of Channel.Query)
wildcard == U32(27698, 21486)   \* 1815237614, hash("+")
SegHash ==
  [ a |-> Small(11), b |-> Small(12), c1 |-> Small(21), c2 |-> Small(22), nope |-> Small(13),
    keygen |-> requestKeygen, presence |-> requestPresence,
    link |-> requestLink, me |-> requestMe ]
Hash(seg) == IF seg = "+" THEN wildcard ELSE SegHash[seg]

IsSegment(tok) == tok = "+" \/ tok \in DOMAIN SegHash
IsKeyShaped(tok) == tok \in KeyStrings \cup {"emitter", "zz"} \/ tok \in DOMAIN SegHash

InvalidChannel ==
  [ChannelType |-> ChannelInvalid, Key |-> "", Channel |-> <<>>, Query |-> <<>>, Options |-> <<>>]

\* security.ParseChannel: key, then at least one segment, then options
ParseChannel(t) ==
  LET n == Len(t)
      optAt == {i \in 2..n : t[i] \in OptTokens}
      firstOpt == IF optAt = {} THEN n + 1 ELSE CHOOSE i \in optAt : \A j \in optAt : i <= j
      segs == SubSeq(t, 2, firstOpt - 1)
      opts == SubSeq(t, firstOpt, n)
      wellFormed == /\ n >= 2
                    /\ IsKeyShaped(t[1])
                    /\ Len(segs) >= 1
                    /\ \A i \in 1..Len(segs) : IsSegment(segs[i])
                    /\ \A i \in 1..Len(opts) : opts[i] \in OptTokens
      wild == \E i \in 1..Len(segs) : segs[i] = "+"
  IN IF ~wellFormed \/ (wild /\ t[1] = "emitter")
       THEN InvalidChannel
       ELSE [ ChannelType |-> IF wild THEN ChannelWildcard ELSE ChannelStatic,
              Key |-> t[1],
              Channel |-> segs,
              Query |-> [i \in 1..Len(segs) |-> Hash(segs[i])],
              Options |-> [i \in 1..Len(opts) |-> ParseOption(opts[i])] ]

\* security.MakeChannel(key, channelWithOptions)
MakeChannel(key, channelWithOptions) == ParseChannel(<<key>> \o channelWithOptions)

OptionString(ch) == [i \in 1..Len(ch.Options) |-> FormatOption(ch.Options[i])]
\* Channel.String: key, path, options
String(ch) == IF ch.ChannelType = ChannelInvalid THEN <<>> ELSE <<ch.Key>> \o ch.Channel \o OptionString(ch)
\* Channel.SafeString: the same without the key
SafeString(ch) == ch.Channel \o OptionString(ch)

\* Channel.getOption: <<value, ok>> of the first option of that name
GetOption(ch, name) ==
  LET at == {i \in 1..Len(ch.Options) : ch.Options[i].Key = name}
  IN IF at = {} THEN <<Num(0), FALSE>>
     ELSE <<ch.Options[CHOOSE i \in at : \A j \in at : i <= j].Value, TRUE>>
Last(ch) == GetOption(ch, "last")
TTL(ch) == GetOption(ch, "ttl")
Exclude(ch) == LET v == GetOption(ch, "me") IN v[2] /\ v[1] = Num(0)
Window(ch) == <<AsInt(GetOption(ch, "from")[1]), AsInt(GetOption(ch, "until")[1])>>

\* ---------------------------------------------------------------- authorize, ssid, trie
\* Service.authorize(channel, permission)
authorize(ch, permission) ==
  LET key == DecryptKey(ch.Key)
      allowed == /\ Decrypts(ch.Key)
                 /\ ~key.Expired
                 /\ HasPermission(key, permission)
                 /\ key.Contract \in Contracts
                 /\ key.Signed
  IN [contract |-> key.Contract, key |-> key, allowed |-> allowed]

\* message.NewSsid(contract, query)
NewSsid(contract, query) == <<Small(contract)>> \o query

\* the trie's match of a subscription against the ssid of a message: the
\* subscription is a prefix of it, a wildcard element matching any element
Matches(sub, ssid) ==
  /\ Len(sub) <= Len(ssid)
  /\ \A i \in 1..Len(sub) : sub[i] = ssid[i] \/ (i > 1 /\ sub[i] = wildcard)

\* subscriptions.Lookup(ssid): the subscribers with a matching entry, each once
Lookup(trie, ssid) == {e[1] : e \in {x \in trie : Matches(x[2], ssid)}}

RECURSIVE SetToSeq(_)
SetToSeq(S) == IF S = {} THEN <<>> ELSE LET x == CHOOSE y \in S : TRUE IN <<x>> \o SetToSeq(S \ {x})

\* ---------------------------------------------------------------- messages and the store
RetainedTTL == U32(65535, 65535)   \* math.MaxUint32

\* message.New(ssid, channel, payload): a transient message
NewMessage(ssid, channel, payload) == [Ssid |-> ssid, Channel |-> channel, Payload |-> payload, TTL |-> Small(0)]
Stored(msg) == msg.TTL # Small(0)

RECURSIVE Filter(_, _)
Filter(s, ssid) ==
  IF s = <<>> THEN <<>>
  ELSE IF Matches(ssid, Head(s).Ssid) THEN <<Head(s)>> \o Filter(Tail(s), ssid)
  ELSE Filter(Tail(s), ssid)

\* storage.Query(ssid, t0, t1, limit): the last `limit` stored messages of the ssid, oldest first
Query(st, ssid, t0, t1, limit) ==
  LET all == Filter(st, ssid)
      n == Len(all)
  IN IF limit >= n THEN all ELSE SubSeq(all, n - limit + 1, n)

\* ---------------------------------------------------------------- state
VARIABLES
  subs,      \* the subscription trie: the set of <<connection, ssid>> entries
  store,     \* the message store: the stored messages, oldest first
  links,     \* links[c]: the links map of connection c, name -> channel string
  closed,    \* the connections that have disconnected
  username,  \* username[c]: the username connection c gave in its CONNECT
  survey,    \* survey[c]: the cluster survey the presence request of c is gathering, if any
  race,      \* the steps of an onSubscribe and an onPublish that run concurrently: where
             \* each stands, and the messages sent to each connection, in order
  okSubs,    \* history: <<c, ssid, n>> when onSubscribe of c to the ssid returned Ok once (n = 1)
             \* or more than once (n = 2), c not having unsubscribed from it or disconnected since
  errSubs,   \* history: <<c, ssid>> for each onSubscribe of c that returned ServerError, c not
             \* having unsubscribed from the ssid or disconnected since
  last       \* what the last handler call was given, returned and sent

vars == <<subs, store, links, closed, username, survey, race, okSubs, errSubs, last>>

\* an empty links map
NoLinks == [n \in {} |-> <<>>]

\* the record of a handler call, before the handler fills it in
Call(op, c, topic) ==
  [ op |-> op, conn |-> c, topic |-> topic, res |-> Ok,
    retain |-> FALSE, payload |-> "", id |-> 0,
    request |-> <<>>,             \* the body of an emitter request
    subsBefore |-> subs, storeBefore |-> store, linksBefore |-> links,
    channel |-> InvalidChannel,   \* the channel the topic parsed to
    query |-> <<>>,               \* the store queries made: <<ssid, t0, t1, limit>> each
    storeFailed |-> FALSE,        \* whether a store query was made and failed
    replay |-> <<>>,              \* the stored messages sent to the connection, in order
    msg |-> <<>>,                 \* the message handed to service.publish
    sent |-> <<>>,                \* the connections service.publish delivered the message to
    routed |-> FALSE,             \* whether the emitter request router was entered
    reply |-> <<>>,               \* the emitter responses sent back
    env |-> [now |-> 0, survey |-> Ok, created |-> Ok],   \* what the environment gave the call
    gather |-> <<>>,      \* the survey the call sent, with what came back and when
    authorized |-> FALSE, \* whether onPublish asked authorize about the channel
    stats |-> <<>>,       \* the contract whose ingress and egress onPublish added to
    roundTrip |-> <<>> ]          \* unsubscribe right after an Ok subscribe of the same topic: was it a member before

Init ==
  /\ subs = {}
  /\ store = <<>>
  /\ links = [c \in Conns |-> NoLinks]
  /\ closed = {}
  /\ username = [c \in Conns |-> ""]
  /\ survey = [c \in Conns |-> <<>>]
  /\ race = [ sub |-> [pc |-> "idle", conn |-> "", topic |-> <<>>, replay |-> <<>>],
              started |-> 0, returned |-> 0,
              pub |-> [pc |-> "idle", conn |-> "", msg |-> <<>>, exclude |-> "", after |-> 0],
              log |-> [c \in Conns |-> <<>>] ]
  /\ okSubs = {}
  /\ errSubs = {}
  /\ last = [Call("init", "", <<>>) EXCEPT !.subsBefore = {}, !.storeBefore = <<>>,
                                            !.linksBefore = [c \in Conns |-> NoLinks]]

\* the history of Ok subscribes, with one more of c to ssid
Counted(h, c, ssid) ==
  IF \E e \in h : e[1] = c /\ e[2] = ssid
    THEN {e \in h : ~(e[1] = c /\ e[2] = ssid)} \cup {<<c, ssid, 2>>}
    ELSE h \cup {<<c, ssid, 1>>}

\* Conn.Subscribe(ssid, channel) / Conn.Unsubscribe(ssid, channel) on the trie
ConnSubscribe(trie, c, ssid) == trie \cup {<<c, ssid>>}
ConnUnsubscribe(trie, c, ssid) == trie \ {<<c, ssid>>}

\* ---------------------------------------------------------------- onConnect
\* onConnect(packet): the connection takes the username of the CONNECT packet
OnConnect(c, name) ==
  /\ c \notin closed /\ survey[c] = <<>>
  /\ username' = [username EXCEPT ![c] = name]
  /\ last' = Call("connect", c, <<>>)
  /\ UNCHANGED <<subs, store, links, closed, okSubs, errSubs, survey, race>>

\* ---------------------------------------------------------------- onSubscribe
SubscribeRefusalNoExtend(channel) ==
  IF channel.ChannelType = ChannelInvalid THEN ErrBadRequest
  ELSE IF ~authorize(channel, AllowRead).allowed THEN ErrUnauthorized
  ELSE Ok
\* the refusals of onSubscribe, in the order the handler checks them
SubscribeRefusal(channel) ==
  IF channel.ChannelType = ChannelInvalid THEN ErrBadRequest
  ELSE IF ~authorize(channel, AllowRead).allowed THEN ErrUnauthorized
  ELSE IF HasPermission(authorize(channel, AllowRead).key, AllowExtend) THEN ErrUnauthorizedExt
  ELSE Ok

SubscribeSsidNoContract(channel) == NewSsid(0, channel.Query)
\* the ssid onSubscribe subscribes to
SubscribeSsid(channel) == NewSsid(authorize(channel, AllowRead).key.Contract, channel.Query)

ReplayLimitAlwaysOne(channel) == 1
\* the limit of the replay query
ReplayLimit(channel) == IF Last(channel)[2] THEN AsInt(Last(channel)[1]) ELSE 1

ReplayResultSwallowed(load, storeFails) == Ok
\* what onSubscribe returns once it has subscribed: a failed store query is a ServerError
ReplayResult(load, storeFails) == IF load /\ storeFails THEN ErrServerError ELSE Ok

SubscribeAppliedAfterQuery(trie, c, ssid, failed) == IF failed THEN trie ELSE ConnSubscribe(trie, c, ssid)
\* the trie once onSubscribe is past its store query: the subscription was made before
\* the query, whether the query failed or not
SubscribeApplied(trie, c, ssid, failed) == ConnSubscribe(trie, c, ssid)

OnSubscribe(c, mqttTopic, storeFails) ==
  LET channel == ParseChannel(mqttTopic)
      refusal == SubscribeRefusal(channel)
      key == authorize(channel, AllowRead).key
      ssid == SubscribeSsid(channel)
      limit == ReplayLimit(channel)
      w == Window(channel)
      load == HasPermission(key, AllowLoad)
      res == ReplayResult(load, storeFails)
      call == [Call("subscribe", c, mqttTopic) EXCEPT !.channel = channel]
  IN /\ c \notin closed /\ survey[c] = <<>>
     /\ IF refusal # Ok
          THEN /\ last' = [call EXCEPT !.res = refusal]
               /\ UNCHANGED <<subs, store, links, closed, username, okSubs, errSubs, survey, race>>
          ELSE /\ subs' = SubscribeApplied(subs, c, ssid, load /\ storeFails)
               /\ Cardinality(subs') <= MaxSubs
               /\ okSubs' = IF res = Ok THEN Counted(okSubs, c, NewSsid(key.Contract, channel.Query)) ELSE okSubs
               /\ errSubs' = IF res = ErrServerError
                               THEN errSubs \cup {<<c, NewSsid(key.Contract, channel.Query)>>}
                               ELSE errSubs
               /\ last' = [call EXCEPT
                    !.res = res,
                    !.storeFailed = load /\ storeFails,
                    !.query = IF load THEN << <<ssid, w[1], w[2], limit>> >> ELSE <<>>,
                    !.replay = IF load /\ ~storeFails THEN Query(store, ssid, w[1], w[2], limit) ELSE <<>>]
               /\ UNCHANGED <<store, links, closed, username, survey, race>>

\* ---------------------------------------------------------------- onUnsubscribe
UnsubscribeRefusal(channel) ==
  IF channel.ChannelType = ChannelInvalid THEN ErrBadRequest
  ELSE IF ~authorize(channel, AllowRead).allowed THEN ErrUnauthorized
  ELSE Ok

UnsubscribeSsidNoQuery(channel) == NewSsid(authorize(channel, AllowRead).key.Contract, <<>>)
\* the ssid onUnsubscribe unsubscribes from
UnsubscribeSsid(channel) == NewSsid(authorize(channel, AllowRead).key.Contract, channel.Query)

UnsubscribeRefusedDropsAll(trie, c) == {e \in trie : e[1] # c}
\* the trie after an onUnsubscribe that is refused: it returns before c.Unsubscribe
UnsubscribeRefused(trie, c) == trie

OnUnsubscribe(c, mqttTopic) ==
  LET channel == ParseChannel(mqttTopic)
      refusal == UnsubscribeRefusal(channel)
      ssid == UnsubscribeSsid(channel)
      call == [Call("unsubscribe", c, mqttTopic) EXCEPT !.channel = channel]
      after == last.op = "subscribe" /\ last.res = Ok /\ last.conn = c /\ last.topic = mqttTopic
  IN /\ c \notin closed /\ survey[c] = <<>>
     /\ IF refusal # Ok
          THEN /\ last' = [call EXCEPT !.res = refusal]
               /\ subs' = UnsubscribeRefused(subs, c)
               /\ UNCHANGED <<store, links, closed, username, okSubs, errSubs, survey, race>>
          ELSE /\ subs' = ConnUnsubscribe(subs, c, ssid)
               /\ okSubs' = {e \in okSubs : ~(e[1] = c /\ e[2] = NewSsid(authorize(channel, AllowRead).key.Contract, channel.Query))}
               /\ errSubs' = errSubs \ {<<c, NewSsid(authorize(channel, AllowRead).key.Contract, channel.Query)>>}
               /\ last' = [call EXCEPT
                    !.roundTrip = IF after THEN << <<c, SubscribeSsid(channel)>> \in last.subsBefore >> ELSE <<>>]
               /\ UNCHANGED <<store, links, closed, username, survey, race>>

\* ---------------------------------------------------------------- emitter requests
\* link names and short topics, as the characters they are made of
NameChars ==
  ("" :> <<>>) @@ ("x" :> <<"x">>) @@ ("y1" :> <<"y", "1">>) @@ ("abc" :> <<"a", "b", "c">>)
  @@ ("a-" :> <<"a", "-">>) @@ ("a" :> <<"a">>) @@ ("b" :> <<"b">>) @@ ("+" :> <<"+">>)
  @@ ("c1" :> <<"c", "1">>) @@ ("c2" :> <<"c", "2">>)
AlphaNum == {"x", "y", "1", "2", "a", "b", "c"}

shortcutAnyLength(name) ==
  /\ name \in DOMAIN NameChars
  /\ \A i \in 1..Len(NameChars[name]) : NameChars[name][i] \in AlphaNum
\* shortcut = ^[a-zA-Z0-9]{1,2}$
shortcut(name) ==
  /\ name \in DOMAIN NameChars
  /\ Len(NameChars[name]) \in 1..2
  /\ \A i \in 1..Len(NameChars[name]) : NameChars[name][i] \in AlphaNum

\* the length in bytes of a token: a short token counts its characters, any
\* other token (a key, a verb, an option) is longer than two bytes
TokLen(tok) == IF tok \in DOMAIN NameChars THEN Len(NameChars[tok]) ELSE 7

RECURSIVE SumLen(_)
SumLen(t) == IF t = <<>> THEN 0 ELSE TokLen(Head(t)) + SumLen(Tail(t))
\* len(mqttTopic): the tokens, and a separator after each once there is a path
ByteLen(t) == SumLen(t) + (IF Len(t) >= 2 THEN Len(t) ELSE 0)

\* c.links[name], the empty string when there is no such link
LinkGet(lk, name) == IF name \in DOMAIN lk THEN lk[name] ELSE <<>>

ResolveTopicNever(lk, t) == t
\* the topic onPublish parses: a topic of at most two bytes is looked up in links
ResolveTopic(lk, t) ==
  IF ByteLen(t) <= 2
    THEN LinkGet(lk, IF t = <<>> THEN "" ELSE t[1])
    ELSE t

\* a JSON body: Json says whether it unmarshals; the fields it does not carry are zero
Body(data) ==
  [ Json |-> FALSE, Data |-> data, Name |-> "", Key |-> "", Channel |-> <<>>,
    Subscribe |-> FALSE, Private |-> FALSE, Type |-> <<>>, TTL |-> 0,
    Status |-> "absent", Changes |-> "absent" ]
LinkRequest(name, key, channel, subscribe, private) ==
  [Body("link") EXCEPT !.Json = TRUE, !.Name = name, !.Key = key, !.Channel = channel,
                       !.Subscribe = subscribe, !.Private = private]
\* type is the sequence of the flag characters
KeyGenRequest(key, channel, type, ttl) ==
  [Body("keygen") EXCEPT !.Json = TRUE, !.Key = key, !.Channel = channel, !.Type = type, !.TTL = ttl]
\* status and changes are "true", "false" or "absent"
PresenceRequest(key, channel, status, changes) ==
  [Body("presence") EXCEPT !.Json = TRUE, !.Key = key, !.Channel = channel,
                           !.Status = status, !.Changes = changes]
MeRequest == [Body("me") EXCEPT !.Json = TRUE]

\* a response: an error (Status, Code), or the body of a link or me response
Response(kind, status) ==
  [ Kind |-> kind, Status |-> status, Code |-> Ok, Name |-> "", Channel |-> <<>>, ID |-> "",
    Links |-> NoLinks, Key |-> "", Minted |-> <<>>, Time |-> 0, Event |-> "", Who |-> <<>> ]
ErrorResponse(code) ==
  [ Response("error", CASE code = ErrBadRequest -> 400 [] code = ErrLinkInvalid -> 400
                        [] code = ErrUnauthorized -> 401 [] code = ErrUnauthorizedExt -> 401
                        [] code = ErrForbidden -> 403 [] code = ErrNotFound -> 404
                        [] OTHER -> 500)
    EXCEPT !.Code = code ]
NoResponse == Response("none", 0)

\* the key string minted by extending a key for a connection
MintTable ==
  [ kE |-> [c1 |-> "kEc1", c2 |-> "kEc2"],
    kF |-> [c1 |-> "kFc1", c2 |-> "kFc2"] ]

\* keys.ExtendKey(key, channel, connectionID, access, expires): <<error, channel>>; the
\* minted key string stands for the key with that access and expiry
ExtendKey(keyString, channelName, id, access) ==
  LET extended(parent, target) ==
        IF ~Decrypts(keyString) \/ parent.Expired \/ ~HasPermission(parent, AllowExtend)
             \/ keyString \notin DOMAIN MintTable
          THEN <<ErrUnauthorized, InvalidChannel>>
        ELSE IF target.ChannelType # ChannelStatic
          THEN <<ErrForbidden, InvalidChannel>>
        ELSE <<Ok, [target EXCEPT !.Key = MintTable[keyString][id],
                                  !.Channel = target.Channel \o <<id>>,
                                  !.Query = target.Query \o <<Hash(id)>>]>>
  IN extended(DecryptKey(keyString), MakeChannel(keyString, channelName))

LinkStoredSafe(channel) == SafeString(channel)
\* the channel string onLink stores under the name
LinkStored(channel) == String(channel)

\* onLink(payload): the response, the links map and the trie it leaves
onLink(c, request, lk, trie) ==
  LET keep == [lk |-> lk, trie |-> trie]
      result(priv, channel, auth) ==
        IF ~request.Json THEN [resp |-> ErrorResponse(ErrBadRequest)] @@ keep
        ELSE IF ~shortcut(request.Name) THEN [resp |-> ErrorResponse(ErrLinkInvalid)] @@ keep
        ELSE IF request.Private /\ priv[1] # Ok THEN [resp |-> ErrorResponse(priv[1])] @@ keep
        ELSE IF channel.ChannelType = ChannelInvalid THEN [resp |-> ErrorResponse(ErrBadRequest)] @@ keep
        ELSE [ resp |-> [Response("link", 200) EXCEPT !.Name = request.Name, !.Channel = SafeString(channel)],
            lk |-> (request.Name :> LinkStored(channel)) @@ lk,
            trie |-> IF auth.allowed /\ request.Subscribe
                       THEN ConnSubscribe(trie, c, NewSsid(auth.key.Contract, channel.Query))
                       ELSE trie ]
      step2(priv, channel) == result(priv, channel, authorize(channel, AllowRead))
      step1(priv) == step2(priv, IF request.Private THEN priv[2] ELSE MakeChannel(request.Key, request.Channel))
  IN step1(ExtendKey(request.Key, request.Channel, c, AllowAll))

MeLinkRaw(v) == v
\* the value onMe reports for a stored link
MeLink(v) == SafeString(ParseChannel(v))

\* onMe(): the id of the connection and its links
onMe(c, lk) ==
  [ resp |-> [Response("me", 0) EXCEPT !.ID = c, !.Links = [k \in DOMAIN lk |-> MeLink(lk[k])]] ]

\* ---- keygen
\* keyGenRequest.access: the permissions the flag characters ask for
FlagAccess ==
  [ r |-> AllowRead, w |-> AllowWrite, s |-> AllowStore, l |-> AllowLoad,
    p |-> AllowPresence, e |-> AllowExtend, x |-> AllowExecute ]
access(type) ==
  {FlagAccess[type[i]] : i \in {j \in 1..Len(type) : type[j] \in DOMAIN FlagAccess}}

\* keyGenRequest.expires: epoch zero for ttl = 0, now + ttl seconds otherwise
expires(ttl, now) == IF ttl = 0 THEN 0 ELSE now + ttl

\* what the new key of a keygen response decrypts to
Minted(contract, channel, perms, expiry) ==
  [Contract |-> contract, Channel |-> channel, Perms |-> perms, Expires |-> expiry]

\* keys.CreateKey(masterKey, channel, access, expires): <<error, key string, what it
\* decrypts to>>; outcome is the error of the key provider, Ok when it has none
CreateKey(keyString, channelName, perms, expiry, outcome) ==
  IF outcome # Ok THEN <<outcome, "", <<>>>>
  ELSE <<Ok, "minted", <<Minted(DecryptKey(keyString).Contract, channelName, perms, expiry)>>>>

KeyGenAccessAll(message) == AllowAll
\* the access onKeyGen asks the key provider for
KeyGenAccess(message) == access(message.Type)

KeyGenExpiresNever(message, now) == 0
\* the expiry onKeyGen asks the key provider for
KeyGenExpires(message, now) == expires(message.TTL, now)

\* onKeyGen(payload): the response; Minted describes the key the response carries
onKeyGen(c, message, env) ==
  LET created(key) ==
        IF key[1] # Ok THEN [resp |-> ErrorResponse(key[1])]
        ELSE [resp |-> [Response("keygen", 200) EXCEPT !.Key = key[2], !.Channel = message.Channel,
                                                        !.Minted = key[3]]]
      extended(parentKey, ext) ==
        IF ext[1] # Ok THEN [resp |-> ErrorResponse(ext[1])]
        ELSE [resp |-> [Response("keygen", 200) EXCEPT
                          !.Key = ext[2].Key, !.Channel = ext[2].Channel,
                          !.Minted = <<Minted(parentKey.Contract, ext[2].Channel, KeyGenAccess(message),
                                              KeyGenExpires(message, env.now))>>]]
      generate(parentKey) ==
        IF ~message.Json THEN [resp |-> ErrorResponse(ErrBadRequest)]
        ELSE IF ~Decrypts(message.Key) \/ parentKey.Expired THEN [resp |-> ErrorResponse(ErrUnauthorized)]
        ELSE IF parentKey.Master
          THEN created(CreateKey(message.Key, message.Channel, KeyGenAccess(message),
                                 KeyGenExpires(message, env.now), env.created))
        ELSE IF HasPermission(parentKey, AllowExtend)
          THEN extended(parentKey, ExtendKey(message.Key, message.Channel, c, KeyGenAccess(message)))
        ELSE [resp |-> ErrorResponse(ErrUnauthorized)]
  IN generate(DecryptKey(message.Key))

\* ---- presence
\* message.NewSsidForPresence(ssid): the ssid under the presence namespace
NewSsidForPresence(ssid) == <<Small(0), requestPresence>> \o ssid

\* Service.lookupPresence(ssid): id and username of the connections subscribed to the ssid
lookupPresence(trie, names, ssid) ==
  LET who == SetToSeq(Lookup(trie, ssid))
  IN [i \in 1..Len(who) |-> [ID |-> who[i], Username |-> names[who[i]]]]

RECURSIVE Concat(_)
Concat(ss) == IF ss = <<>> THEN <<>> ELSE Head(ss) \o Concat(Tail(ss))

getClusterPresenceUndecoded(gathered) ==
  Concat([i \in 1..Len(gathered) |-> gathered[i].Info])
\* getClusterPresence: the entries of the responses gathered before the deadline that
\* decode; a response is [Decodes |-> BOOLEAN, Info |-> the entries]
getClusterPresence(gathered) ==
  Concat([i \in 1..Len(gathered) |-> IF gathered[i].Decodes THEN gathered[i].Info ELSE <<>>])

getLocalPresence(trie, names, ssid) == lookupPresence(trie, names, ssid)

\* getAllPresence: the local subscribers, looked up before the survey is sent, then the
\* entries the survey gathered
getAllPresence(trie, names, ssid, gathered) ==
  getLocalPresence(trie, names, ssid) \o getClusterPresence(gathered)

\* the survey a presence status request waits for: the ssid asked for and what the local
\* lookup saw when the survey was sent
Survey(ssid, trie, names) == [ssid |-> ssid, trie |-> trie, names |-> names]

PresenceRefusalContractFirst(msg, key, channel) ==
  IF ~msg.Json THEN <<ErrBadRequest>>
  ELSE IF key.Contract \notin Contracts THEN <<ErrNotFound>>
  ELSE IF ~Decrypts(msg.Key) \/ ~HasPermission(key, AllowPresence) \/ key.Expired
    THEN <<ErrUnauthorized>>
  ELSE IF ~key.Signed THEN <<ErrUnauthorized>>
  ELSE IF channel.ChannelType = ChannelInvalid THEN <<ErrBadRequest>>
  ELSE <<>>
\* the error onPresence returns before it touches any state, if any: the body, the key,
\* the contract, the validation of the key by the contract, the channel
PresenceRefusal(msg, key, channel) ==
  IF ~msg.Json THEN <<ErrBadRequest>>
  ELSE IF ~Decrypts(msg.Key) \/ ~HasPermission(key, AllowPresence) \/ key.Expired
    THEN <<ErrUnauthorized>>
  ELSE IF key.Contract \notin Contracts THEN <<ErrNotFound>>
  ELSE IF ~key.Signed THEN <<ErrUnauthorized>>
  ELSE IF channel.ChannelType = ChannelInvalid THEN <<ErrBadRequest>>
  ELSE <<>>

PresenceToggleWithStatus(c, msg, trie, presence) ==
  IF msg.Status = "false" THEN trie
  ELSE IF msg.Changes = "true" THEN ConnSubscribe(trie, c, presence)
  ELSE IF msg.Changes = "false" THEN ConnUnsubscribe(trie, c, presence)
  ELSE trie
\* the trie after the changes toggle of the request: subscribed to the presence ssid,
\* unsubscribed from it, or left alone when the request has no changes field
PresenceToggle(c, msg, trie, presence) ==
  IF msg.Changes = "true" THEN ConnSubscribe(trie, c, presence)
  ELSE IF msg.Changes = "false" THEN ConnUnsubscribe(trie, c, presence)
  ELSE trie

\* onPresence(payload): the response, the trie it leaves and, when the response must wait
\* for the cluster, the survey it sent (the response then still lacks its Who)
onPresence(c, msg, trie, names, env) ==
  LET refuse(code) == [resp |-> ErrorResponse(code), trie |-> trie, gather |-> <<>>]
      toggle(presence) == PresenceToggle(c, msg, trie, presence)
      status(ssid, toggled) ==
        IF msg.Status # "false"
          THEN [ resp |-> [Response("presence", 0) EXCEPT
                             !.Time = env.now, !.Event = "status", !.Channel = msg.Channel,
                             !.Who = IF env.survey = Ok THEN <<>>
                                     ELSE getAllPresence(toggled, names, ssid, <<>>)],
                 trie |-> toggled,
                 gather |-> IF env.survey = Ok THEN <<Survey(ssid, toggled, names)>> ELSE <<>> ]
        ELSE [resp |-> NoResponse, trie |-> toggled, gather |-> <<>>]
      changes(ssid) == status(ssid, toggle(NewSsidForPresence(ssid)))
      checked(key, channel, refusal) ==
        IF refusal # <<>> THEN refuse(refusal[1])
        ELSE changes(NewSsid(key.Contract, channel.Query))
      present(key, channel) == checked(key, channel, PresenceRefusal(msg, key, channel))
  IN present(DecryptKey(msg.Key), ParseChannel(<<"emitter">> \o msg.Channel))

EnvelopeNoRequest(topic, resp, requestID) == [Topic |-> topic, Request |-> 0, Body |-> resp]
\* sendResponse(topic, resp, requestID): the reply, on the topic, for the request
Envelope(topic, resp, requestID) == [Topic |-> topic, Request |-> requestID, Body |-> resp]

\* onEmitterRequest(channel, payload, requestID): the replies sent, the links map and the
\* trie it leaves; a request that waits for a survey has sent no reply yet
onEmitterRequest(c, channel, payload, requestID, lk, trie, names, env) ==
  LET keep == [lk |-> lk, trie |-> trie, gather |-> <<>>]
      send(out) == [ reply |-> IF out.resp.Kind = "none" \/ out.gather # <<>> THEN <<>>
                               ELSE <<Envelope(String(channel), out.resp, requestID)>>,
                     lk |-> out.lk, trie |-> out.trie, gather |-> out.gather,
                     pending |-> Envelope(String(channel), out.resp, requestID) ]
  IN send(IF Len(channel.Query) < 1 THEN [resp |-> ErrorResponse(ErrNotFound)] @@ keep
          ELSE IF channel.Query[1] = requestKeygen THEN onKeyGen(c, payload, env) @@ keep
          ELSE IF channel.Query[1] = requestPresence
            THEN onPresence(c, payload, trie, names, env) @@ keep
          ELSE IF channel.Query[1] = requestMe THEN onMe(c, lk) @@ keep
          ELSE IF channel.Query[1] = requestLink THEN onLink(c, payload, lk, trie) @@ keep
          ELSE [resp |-> ErrorResponse(ErrNotFound)] @@ keep)

Packet(topic, payload, retain, id) == [Topic |-> topic, Payload |-> payload, Retain |-> retain, MessageID |-> id]

PublishForbiddenNever(channel) == FALSE
\* publish should only have static channel strings
PublishForbidden(channel) == channel.ChannelType # ChannelStatic

IsEmitterRequestNever(channel) == FALSE
\* whether the key is 'emitter', which means it is an API request
IsEmitterRequest(channel) == channel.Key = "emitter"

ExtendRefusedNever(key) == FALSE
\* keys which are supposed to be extended should not be used for subscribing or publishing
ExtendRefused(key) == HasPermission(key, AllowExtend)

PublishTTLRetainWins(retain, channel) ==
  IF retain THEN RetainedTTL
  ELSE IF TTL(channel)[2] /\ Positive(TTL(channel)[1]) THEN TTL(channel)[1].Low ELSE Small(0)
\* the TTL of the published message: the retain flag, then a ttl option > 0 (as a uint32)
PublishTTL(retain, channel) ==
  LET retained == IF retain THEN RetainedTTL ELSE Small(0)
  IN IF TTL(channel)[2] /\ Positive(TTL(channel)[1]) THEN TTL(channel)[1].Low ELSE retained

PublishExcludeNobody(c, channel) == ""
\* the connection id excluded from the fan-out: the publisher when me=0 is set
PublishExclude(c, channel) == IF Exclude(channel) THEN c ELSE ""

PublishSsidNoContract(channel) == NewSsid(0, channel.Query)
\* the ssid of the published message
PublishSsid(channel) == NewSsid(authorize(channel, AllowWrite).key.Contract, channel.Query)

\* Service.publish(msg, exclude): the connections the message is sent to
servicePublish(trie, msg, exclude) == SetToSeq(Lookup(trie, msg.Ssid) \ {exclude})

\* what a handler gets from its environment: the time it reads, the error of Survey when
\* it sends a cluster survey, and the error of the key provider when it creates a key
Env(now, surveyed, created) == [now |-> now, survey |-> surveyed, created |-> created]
Times == {100, 200}
CreateOutcomes == {Ok, ErrServerError}
SurveyOutcomes == {Ok, ErrServerError}
\* the environments that make a difference to a packet
Envs(packet) ==
  IF packet.Topic = <<"emitter", "keygen">>
    THEN {Env(t, Ok, e) : t \in Times, e \in CreateOutcomes}
  ELSE IF Len(packet.Topic) >= 2 /\ packet.Topic[1] = "emitter" /\ packet.Topic[2] = "presence"
    THEN {Env(100, g, Ok) : g \in SurveyOutcomes}
  ELSE {Env(100, Ok, Ok)}

\* awaiter.Gather(1000 * time.Millisecond): the deadline of the gather
GatherDeadline == 1000
\* the instants, counted from the dispatch of the survey, at which the gather is observed
Clock == {0, 500, GatherDeadline}

\* a presence request waiting in Gather: the call that sent the survey, the survey, the
\* reply it will send, the time elapsed since the dispatch, the responses received before
\* the deadline in their order of arrival, those that arrived later, and who answered
Gathering(call, sv, envelope) ==
  [ call |-> call, sv |-> sv, pending |-> envelope, elapsed |-> 0,
    inbox |-> <<>>, late |-> <<>>, answered |-> {} ]

OnPublish(c, packet) ==
 \E env \in Envs(packet) :
  LET call(channel) == [Call("publish", c, packet.Topic) EXCEPT
                          !.channel = channel, !.retain = packet.Retain,
                          !.payload = packet.Payload.Data, !.id = packet.MessageID]
      refuse(channel, code) ==
        /\ last' = [call(channel) EXCEPT !.res = code]
        /\ UNCHANGED <<subs, store, links, closed, username, okSubs, errSubs, survey, race>>
      routed(channel, rpc) ==
        [call(channel) EXCEPT !.routed = TRUE, !.request = <<packet.Payload>>, !.env = env,
                              !.reply = rpc.reply,
                              !.op = IF rpc.gather = <<>> THEN "publish" ELSE "survey"]
      request(channel, rpc) ==
        /\ links' = [links EXCEPT ![c] = rpc.lk]
        /\ subs' = rpc.trie
        /\ Cardinality(subs') <= MaxSubs
        /\ last' = routed(channel, rpc)
        /\ survey' = IF rpc.gather = <<>> THEN survey
                     ELSE [survey EXCEPT ![c] = <<Gathering(routed(channel, rpc), rpc.gather[1],
                                                            rpc.pending)>>]
        /\ UNCHANGED <<store, closed, username, okSubs, errSubs, race>>
      publish(channel, key, msg) ==
        /\ store' = IF Stored(msg) /\ HasPermission(key, AllowStore) THEN Append(store, msg) ELSE store
        /\ Len(store') <= MaxStore
        /\ last' = [call(channel) EXCEPT
                      !.msg = <<msg>>, !.authorized = TRUE, !.stats = <<key.Contract>>,
                      !.sent = servicePublish(subs, msg, PublishExclude(c, channel))]
        /\ UNCHANGED <<subs, links, closed, username, okSubs, errSubs, survey, race>>
      denied(channel, code) ==
        /\ last' = [call(channel) EXCEPT !.res = code, !.authorized = TRUE]
        /\ UNCHANGED <<subs, store, links, closed, username, okSubs, errSubs, survey, race>>
      authorized(channel, auth) ==
        IF ~auth.allowed THEN denied(channel, ErrUnauthorized)
        ELSE IF ExtendRefused(auth.key) THEN denied(channel, ErrUnauthorizedExt)
        ELSE publish(channel, auth.key,
                     [NewMessage(PublishSsid(channel), channel.Channel, packet.Payload.Data)
                        EXCEPT !.TTL = PublishTTL(packet.Retain, channel)])
      parsed(channel) ==
        IF channel.ChannelType = ChannelInvalid THEN refuse(channel, ErrBadRequest)
        ELSE IF PublishForbidden(channel) THEN refuse(channel, ErrForbidden)
        ELSE IF IsEmitterRequest(channel)
          THEN request(channel, onEmitterRequest(c, channel, packet.Payload, packet.MessageID,
                                                 links[c], subs, username, env))
        ELSE authorized(channel, authorize(channel, AllowWrite))
  IN /\ c \notin closed /\ survey[c] = <<>>
     /\ parsed(ParseChannel(ResolveTopic(links[c], packet.Topic)))

Close(c) ==
  /\ c \notin closed /\ survey[c] = <<>>
  /\ closed' = closed \cup {c}
  /\ subs' = {e \in subs : e[1] # c}
  /\ okSubs' = {e \in okSubs : e[1] # c}
  /\ errSubs' = {e \in errSubs : e[1] # c}
  /\ last' = Call("close", c, <<>>)
  /\ UNCHANGED <<store, links, username, survey, race>>

\* ---- onSubscribe and onPublish, step by step
\* race.sub is the onSubscribe in progress, race.started the number of onSubscribe calls
\* begun and race.returned the number that returned; race.pub is the onPublish in
\* progress, after being the value of race.returned when it began; race.log[c] is what
\* Send was called with on connection c, in order.
MaxCalls == 2
MaxLog == 3

\* onSubscribe up to c.Subscribe(ssid, channel.Channel): the connection is in the trie
SubscribeInsert(c, mqttTopic) ==
  LET inserted(channel, ssid) ==
        /\ SubscribeRefusal(channel) = Ok
        /\ subs' = ConnSubscribe(subs, c, ssid)
        /\ Cardinality(subs') <= MaxSubs
        /\ race' = [race EXCEPT
                      !.sub = [ pc |-> IF HasPermission(authorize(channel, AllowRead).key, AllowLoad)
                                        THEN "query" ELSE "return",
                                conn |-> c, topic |-> mqttTopic, replay |-> <<>> ],
                      !.started = @ + 1]
  IN /\ c \notin closed /\ survey[c] = <<>>
     /\ race.sub.pc = "idle" /\ (race.pub.pc = "idle" \/ race.pub.conn # c)
     /\ race.started < MaxCalls
     /\ inserted(ParseChannel(mqttTopic), SubscribeSsid(ParseChannel(mqttTopic)))
     /\ UNCHANGED <<store, links, closed, username, survey, okSubs, errSubs, last>>

\* storage.Query(ssid, t0, t1, limit): the messages to replay, or an error
SubscribeQuery(c, storeFails) ==
  LET queried(channel, w) ==
        race' = [race EXCEPT
                   !.sub.pc = IF storeFails THEN "return" ELSE "send",
                   !.sub.replay = IF storeFails THEN <<>>
                                  ELSE Query(store, SubscribeSsid(channel), w[1], w[2], ReplayLimit(channel))]
  IN /\ race.sub.pc = "query" /\ race.sub.conn = c
     /\ queried(ParseChannel(race.sub.topic), Window(ParseChannel(race.sub.topic)))
     /\ UNCHANGED <<subs, store, links, closed, username, survey, okSubs, errSubs, last>>

ReplayRestSame(replay) == replay
\* the messages the loop over the replay has yet to send, once it has sent the first
ReplayRest(replay) == Tail(replay)

\* c.Send(&msg) for the next message of the replay
SubscribeSend(c) ==
  /\ race.sub.conn = c /\ race.sub.replay # <<>>
  /\ Len(race.log[c]) < MaxLog
  /\ race' = [race EXCEPT
                !.sub.replay = ReplayRest(@),
                !.log[c] = Append(@, [kind |-> "replay", msg |-> Head(race.sub.replay), call |-> race.started])]
  /\ UNCHANGED <<subs, store, links, closed, username, survey, okSubs, errSubs, last>>

ReturnsBeforeReplay(replay) == TRUE
\* onSubscribe returns once the loop over the replayed messages is over
ReturnsAfterReplay(replay) == replay = <<>>

SubscribeReturn(c) ==
  /\ race.sub.conn = c /\ race.sub.pc \in {"send", "return"}
  /\ ReturnsAfterReplay(race.sub.replay)
  /\ race' = [race EXCEPT !.sub.pc = "idle", !.returned = race.started]
  /\ UNCHANGED <<subs, store, links, closed, username, survey, okSubs, errSubs, last>>

\* onPublish up to storage.Store(msg): the message is built and, if it is to be, stored
PublishStore(c, packet) ==
  LET stored(channel, key, msg) ==
        /\ store' = IF Stored(msg) /\ HasPermission(key, AllowStore) THEN Append(store, msg) ELSE store
        /\ Len(store') <= MaxStore
        /\ race' = [race EXCEPT
                      !.pub = [ pc |-> "fanout", conn |-> c, msg |-> <<msg>>,
                                exclude |-> PublishExclude(c, channel), after |-> race.returned ]]
      authorized(channel, auth) ==
        /\ auth.allowed /\ ~ExtendRefused(auth.key)
        /\ stored(channel, auth.key,
                  [NewMessage(PublishSsid(channel), channel.Channel, packet.Payload.Data)
                     EXCEPT !.TTL = PublishTTL(packet.Retain, channel)])
      parsed(channel) ==
        /\ channel.ChannelType = ChannelStatic /\ ~IsEmitterRequest(channel)
        /\ authorized(channel, authorize(channel, AllowWrite))
  IN /\ c \notin closed /\ survey[c] = <<>>
     /\ race.pub.pc = "idle" /\ (race.sub.pc = "idle" \/ race.sub.conn # c)
     /\ parsed(ParseChannel(ResolveTopic(links[c], packet.Topic)))
     /\ UNCHANGED <<subs, links, closed, username, survey, okSubs, errSubs, last>>

\* service.publish(msg, exclude): Send on every subscriber the trie has now
PublishFanout(c) ==
  LET sent(to) ==
        /\ \A d \in to : Len(race.log[d]) < MaxLog
        /\ race' = [race EXCEPT
                      !.pub.pc = "idle",
                      !.log = [d \in Conns |->
                                 IF d \in to
                                   THEN Append(race.log[d], [kind |-> "live", msg |-> race.pub.msg[1],
                                                             call |-> race.pub.after])
                                 ELSE race.log[d]]]
  IN /\ race.pub.pc = "fanout" /\ race.pub.conn = c
     /\ sent(Lookup(subs, race.pub.msg[1].Ssid) \ {race.pub.exclude})
     /\ UNCHANGED <<subs, store, links, closed, username, survey, okSubs, errSubs, last>>

\* ---- the cluster survey of a presence status request
\* the peers of the node and the presence list each holds for the ssid asked for
Peers == {"n2", "n3"}
PeerPresence ==
  [ n2 |-> <<[ID |-> "r1", Username |-> "bob"]>>,
    n3 |-> <<[ID |-> "r2", Username |-> "carol"], [ID |-> "r3", Username |-> ""]>> ]
\* what a peer may send back: its marshaled list, or bytes that do not decode
PeerResponses(p) == {[Peer |-> p, Decodes |-> d, Info |-> PeerPresence[p]] : d \in BOOLEAN}

\* a response of peer p reaches the awaiter of c: kept when it arrives before the deadline
PeerResponse(c, p, resp) ==
  /\ survey[c] # <<>>
  /\ p \notin survey[c][1].answered
  /\ survey' = [survey EXCEPT ![c] =
                  <<[ survey[c][1] EXCEPT
                        !.answered = @ \cup {p},
                        !.inbox = IF survey[c][1].elapsed < GatherDeadline THEN Append(@, resp) ELSE @,
                        !.late = IF survey[c][1].elapsed < GatherDeadline THEN @ ELSE Append(@, resp) ]>>]
  /\ UNCHANGED <<subs, store, links, closed, username, okSubs, errSubs, last, race>>

\* time passes for the gather of c, up to its deadline
Tick(c) ==
  /\ survey[c] # <<>>
  /\ survey[c][1].elapsed < GatherDeadline
  /\ survey' = [survey EXCEPT ![c] =
                  <<[ survey[c][1] EXCEPT
                        !.elapsed = CHOOSE t \in Clock :
                                      /\ t > survey[c][1].elapsed
                                      /\ \A u \in Clock : u > survey[c][1].elapsed => t <= u ]>>]
  /\ UNCHANGED <<subs, store, links, closed, username, okSubs, errSubs, last, race>>

\* Gather returns, at the deadline or once every peer has answered: onPresence fills the
\* who list in and onEmitterRequest sends the reply
GatherReturn(c) ==
  /\ survey[c] # <<>>
  /\ survey[c][1].elapsed = GatherDeadline \/ survey[c][1].answered = Peers
  /\ LET returned(g) ==
           [ g.call EXCEPT
               !.op = "publish", !.subsBefore = subs, !.storeBefore = store, !.linksBefore = links,
               !.gather = <<[ sv |-> g.sv, elapsed |-> g.elapsed, inbox |-> g.inbox,
                              late |-> g.late, answered |-> g.answered ]>>,
               !.reply = <<[ g.pending EXCEPT
                               !.Body.Who = getAllPresence(g.sv.trie, g.sv.names, g.sv.ssid, g.inbox) ]>> ]
     IN last' = returned(survey[c][1])
  /\ survey' = [survey EXCEPT ![c] = <<>>]
  /\ UNCHANGED <<subs, store, links, closed, username, okSubs, errSubs, race>>

\* ---------------------------------------------------------------- inputs
Paths == {<<"a">>, <<"a", "b">>, <<"a", "+">>}

\* topics that do not parse
BadTopics == {<<>>, <<"kA">>, <<"kA", "last=2">>}

\* the steps of the connections, each given the topics and packets it may send
Next(subTopics, packets(_)) ==
  \E c \in Conns :
    \/ \E t \in subTopics, storeFails \in BOOLEAN : OnSubscribe(c, t, storeFails)
    \/ \E t \in subTopics : OnUnsubscribe(c, t)
    \/ \E p \in packets(c) : OnPublish(c, p)
    \/ Close(c)

\* ---- subscriptions and fan-out
FanSubTopics ==
  {<<"kB">> \o p : p \in Paths} \cup {<<k, "a">> : k \in {"kA", "kZ", "kX"}}
FanPackets(c) ==
  {Packet(t, Body("p1"), FALSE, 1) :
     t \in {<<"kA", "a">>, <<"kA", "a", "b">>, <<"kB", "a">>, <<"kZ", "a">>, <<"kA", "a", "me=0">>,
            <<"kB", "a", "b", "me=0">>, <<"kA", "a", "me=1">>, <<"kA", "a", "+">>}}

Spec == Init /\ [][Next(FanSubTopics, FanPackets)]_vars

\* ---- authorization and channel type
AuthKeys == {"kA", "kE", "kF", "kX", "kO", "kN", "kU", "zz"}
AuthSubTopics ==
  {<<k, "a">> : k \in AuthKeys} \cup {<<"kE", "a", "+">>, <<"kX", "a", "b">>} \cup BadTopics
AuthPubTopics ==
  {<<k, "a">> : k \in AuthKeys \cup {"emitter"}}
  \cup {<<k, "a", "+">> : k \in {"kA", "kE", "kX", "zz", "emitter"}}
  \cup {<<"kA", "a", "+", "ttl=3">>, <<"kA", "+", "me=0">>, <<"kE", "a", "ttl=3">>, <<"kF", "a", "b", "me=0">>}
  \cup BadTopics
AuthPackets(c) ==
  {Packet(t, Body("p1"), FALSE, 1) : t \in AuthPubTopics}
  \cup {Packet(t, Body("p1"), TRUE, 1) : t \in {<<"kA", "a">>, <<"kE", "a">>, <<"kA", "a", "+">>}}

SpecAuth == Init /\ [][Next(AuthSubTopics, AuthPackets)]_vars

\* ---- replay and TTL
StoreSubTopics ==
  {<<"kA", "a">>, <<"kA", "a", "last=2">>, <<"kA", "a", "from=1", "until=2">>, <<"kB", "a", "last=2">>}
StorePackets(c) ==
  {Packet(<<"kA", "a">> \o o, Body(d), r, 1) :
     o \in {<<>>, <<"ttl=3">>, <<"ttl=0">>, <<"ttl=-1">>, <<"ttl=4294967299">>, <<"ttl=4294967296">>},
     d \in {"p1"}, r \in BOOLEAN}
  \cup {Packet(<<"kB", "a", "ttl=3">>, Body("p1"), r, 1) : r \in BOOLEAN}

SpecStore == Init /\ [][Next(StoreSubTopics, StorePackets)]_vars


\* ---- links
LinkSubTopics == {<<"kB", "a">>}
LinkRequests ==
  {LinkRequest(n, "kA", <<"a">>, FALSE, FALSE) : n \in {"x", "y1"}}
  \cup { LinkRequest("x", "kA", <<"a", "ttl=3">>, FALSE, FALSE),
         LinkRequest("x", "kE", <<"a">>, FALSE, TRUE),
         LinkRequest("y1", "kE", <<"a">>, FALSE, FALSE),
         LinkRequest("y1", "kB", <<"a">>, TRUE, FALSE) }
  \cup {LinkRequest(n, "kA", <<"a">>, TRUE, FALSE) : n \in {"", "abc", "a-"}}
  \cup {LinkRequest("x", k, <<"a">>, FALSE, TRUE) : k \in {"zz", "kA", "kO"}}
  \cup {LinkRequest("x", "kE", <<>>, FALSE, FALSE), LinkRequest("x", "kE", <<"a", "+">>, FALSE, TRUE)}
LinkPackets(c) ==
  {Packet(<<"emitter", v>>, MeRequest, FALSE, 1) : v \in {"me", "nope"}}
  \cup { Packet(<<"emitter", "keygen">>, KeyGenRequest("kM", <<"a">>, <<"r", "w", "?">>, 0), FALSE, 1),
         Packet(<<"emitter", "presence">>, PresenceRequest("kP", <<"a">>, "false", "absent"), FALSE, 1) }
  \cup {Packet(t, Body("p1"), FALSE, 1) : t \in {<<"x">>, <<"abc">>, <<"kA", "a">>}}
  \cup {Packet(<<"emitter", "link">>, r, FALSE, 1) :
          r \in IF c = "c1" THEN LinkRequests \cup {Body("p1")} ELSE {}}

SpecLink == Init /\ [][Next(LinkSubTopics, LinkPackets)]_vars

\* ---- keygen
KeygenSubTopics == {<<"kB", "a">>}
KeygenRequests ==
  {KeyGenRequest(k, <<"a">>, t, ttl) :
     k \in {"kM", "kMo", "kE", "kA", "kO", "zz"},
     t \in {<<>>, <<"r", "w">>, <<"r", "?", "x", "r">>, <<"r", "w", "s", "l", "p", "e", "x">>},
     ttl \in {0, 5}}
KeygenPackets(c) ==
  {Packet(<<"emitter", "keygen">>, r, FALSE, 1) : r \in KeygenRequests \cup {Body("p1")}}
  \cup {Packet(<<"kB", "a">>, Body("p1"), FALSE, 1)}

SpecKeygen == Init /\ [][Next(KeygenSubTopics, KeygenPackets)]_vars

\* ---- presence
PresenceSubTopics == {<<"kB", "a">>}
PresenceKeys == {"zz", "kA", "kPo", "kPn", "kPnu", "kPu", "kP"}
PresenceRequests ==
  {PresenceRequest("kP", <<"a">>, st, ch) : st, ch \in {"absent", "true", "false"}}
  \cup {PresenceRequest(k, ch, "true", "true") : k \in PresenceKeys, ch \in {<<"a">>, <<>>}}
PresencePackets(c) ==
  IF c = "c1"
    THEN {Packet(<<"emitter", "presence">>, r, FALSE, 1) : r \in PresenceRequests \cup {Body("p1")}}
  ELSE {}
UserNames == {"al"}

\* the steps of the connections, on a node whose peers do not answer its surveys
NextPresence ==
  \/ Next(PresenceSubTopics, PresencePackets)
  \/ \E name \in UserNames : OnConnect("c2", name)
  \/ \E c \in Conns : Tick(c)
  \/ \E c \in Conns : GatherReturn(c)

SpecPresence == Init /\ [][NextPresence]_vars

\* ---- the cluster survey
SurveyRequests == {PresenceRequest("kP", <<"a">>, "true", ch) : ch \in {"absent", "true"}}

\* a connection asks for the presence status while another one subscribes, the peers
\* answer or not, and time passes
NextSurvey ==
  \/ \E r \in SurveyRequests : OnPublish("c1", Packet(<<"emitter", "presence">>, r, FALSE, 1))
  \/ \E storeFails \in BOOLEAN : OnSubscribe("c2", <<"kB", "a">>, storeFails)
  \/ \E name \in UserNames : OnConnect("c2", name)
  \/ \E c \in Conns, p \in Peers : \E resp \in PeerResponses(p) : PeerResponse(c, p, resp)
  \/ \E c \in Conns : Tick(c)
  \/ \E c \in Conns : GatherReturn(c)

SpecSurvey == Init /\ [][NextSurvey]_vars

\* time passes and Gather returns when it may: the awaiter runs on its own timer
SpecSurveyFair ==
  SpecSurvey /\ \A c \in Conns : WF_vars(Tick(c)) /\ WF_vars(GatherReturn(c))

\* ---- the router of the emitter requests
RouterSubTopics == {<<"kB", "a">>}
RouterBodies ==
  { Body("p1"), MeRequest,
    KeyGenRequest("kM", <<"a">>, <<"r">>, 0), KeyGenRequest("kA", <<"a">>, <<"r">>, 0),
    LinkRequest("x", "emitter", <<"me">>, FALSE, FALSE), LinkRequest("abc", "kA", <<"a">>, FALSE, FALSE),
    PresenceRequest("kP", <<"a">>, "true", "absent"), PresenceRequest("kP", <<"a">>, "false", "true"),
    PresenceRequest("zz", <<"a">>, "false", "absent") }
RouterPackets(c) ==
  IF c = "c1"
    THEN {Packet(<<"emitter", v>>, b, FALSE, id) :
            v \in {"keygen", "presence", "link", "me", "nope"}, b \in RouterBodies, id \in {1, 2}}
         \cup {Packet(<<"x">>, Body("p1"), FALSE, 2), Packet(<<"emitter">>, MeRequest, FALSE, 1)}
  ELSE {Packet(<<"kB", "a">>, Body("p1"), FALSE, 1)}

NextRouter ==
  \/ Next(RouterSubTopics, RouterPackets)
  \/ \E c \in Conns : Tick(c)
  \/ \E c \in Conns : GatherReturn(c)

SpecRouter == Init /\ [][NextRouter]_vars

\* ---- keys with the Extend bit, across the operations
ExtendSubTopics == {<<"kE", "a">>, <<"kB", "a">>}
ExtendRequests == {LinkRequest("x", k, <<"a">>, TRUE, p) : k \in {"kE", "kB"}, p \in BOOLEAN}
ExtendPackets(c) ==
  {Packet(t, Body("p1"), FALSE, 1) : t \in {<<"kE", "a">>, <<"kB", "a">>, <<"x">>}}
  \cup (IF c = "c1"
          THEN {Packet(<<"emitter", "link">>, r, FALSE, 1) : r \in ExtendRequests}
               \cup {Packet(<<"emitter", "presence">>,
                             PresenceRequest("kP", <<"a">>, "false", "true"), FALSE, 1)}
        ELSE {})

SpecExtend == Init /\ [][Next(ExtendSubTopics, ExtendPackets)]_vars

\* ---- replay and concurrent publishes
ReplaySubTopics == {<<"kA", "a", "last=2">>}
ReplayPackets == {Packet(<<"kA", "a">>, Body("p1"), r, 1) : r \in BOOLEAN}

\* one connection subscribes while the other publishes, every step of one between any
\* two steps of the other
NextReplay ==
  \/ \E t \in ReplaySubTopics : SubscribeInsert("c1", t)
  \/ \E storeFails \in BOOLEAN : SubscribeQuery("c1", storeFails)
  \/ SubscribeSend("c1")
  \/ SubscribeReturn("c1")
  \/ \E p \in ReplayPackets : PublishStore("c2", p)
  \/ PublishFanout("c2")

SpecReplay == Init /\ [][NextReplay]_vars

\* ---- one onSubscribe and stored publishes of distinct messages
DuplicatePackets == {Packet(<<"kA", "a">>, Body(d), TRUE, 1) : d \in {"p1", "p2"}}
\* the payload of the packet has not been published yet
Fresh(packet) == \A i \in 1..Len(store) : store[i].Payload # packet.Payload.Data

\* a connection subscribes once, with a key that has Load, while the other publishes
\* retained messages with a key that has Store, each payload once
NextDuplicate ==
  \/ \E t \in ReplaySubTopics : race.started = 0 /\ SubscribeInsert("c1", t)
  \/ \E storeFails \in BOOLEAN : SubscribeQuery("c1", storeFails)
  \/ SubscribeSend("c1")
  \/ SubscribeReturn("c1")
  \/ \E p \in DuplicatePackets : Fresh(p) /\ PublishStore("c2", p)
  \/ PublishFanout("c2")

SpecDuplicate == Init /\ [][NextDuplicate]_vars

\* ---------------------------------------------------------------- properties
Range(s) == {s[i] : i \in 1..Len(s)}
Count(s, x) == Cardinality({i \in 1..Len(s) : s[i] = x})

\* the last call was an onPublish that built a message and handed it to the fan-out
Published == last.op = "publish" /\ last.res = Ok /\ last.msg # <<>>
\* the ssid of the channel the last call addressed: contract id, then the channel query
CallSsid == <<Small(DecryptKey(last.channel.Key).Contract)>> \o last.channel.Query

\* C1: once onSubscribe by C returned Ok, and C has neither unsubscribed from the ssid
\* nor disconnected, a successful onPublish by another connection P whose ssid
\* matches is delivered to C exactly once.
C1_DeliveredExactlyOnce ==
  Published =>
    \A e \in okSubs :
      (e[1] # last.conn /\ Matches(e[2], CallSsid)) => Count(last.sent, e[1]) = 1

\* C subscribed more than once to a/+/ (which only kB subscribes to), and P published
\* to a/b/ with kA, another key of the contract
C1_Witness ==
  /\ Published
  /\ last.channel.Key = "kA"
  /\ \E e \in okSubs :
       /\ e[1] # last.conn /\ e[3] = 2
       /\ e[2] = <<Small(1), Hash("a"), wildcard>>
       /\ Matches(e[2], CallSsid)
       /\ Count(last.sent, e[1]) = 1

\* the last call was an Ok onUnsubscribe(K) by C right after an Ok onSubscribe(K) by C
RoundTripDone == last.op = "unsubscribe" /\ last.res = Ok /\ last.roundTrip # <<>>

C8_ExcludeMe ==
  Published =>
    LET me0 == \E i \in 1..Len(last.channel.Options) :
                 last.channel.Options[i] = [Key |-> "me", Value |-> Num(0)]
        subscribers == Lookup(subs, CallSsid)
    IN /\ me0 => /\ last.conn \notin Range(last.sent)
                 /\ \A d \in subscribers \ {last.conn} : Count(last.sent, d) = 1
       /\ ~me0 => (last.conn \in subscribers => Count(last.sent, last.conn) = 1)

\* C published with me=0 to an ssid it and another connection are subscribed to
C8_Witness ==
  /\ Published
  /\ Exclude(last.channel)
  /\ last.conn \in Lookup(subs, CallSsid)
  /\ last.conn \notin Range(last.sent)
  /\ \E d \in Conns \ {last.conn} : d \in Range(last.sent)

\* the last call was an onSubscribe / onPublish made with a key that has the Extend bit,
\* on a channel that parses / on a static channel that is not an emitter request
ExtendKeyUsed ==
  /\ Decrypts(last.channel.Key)
  /\ AllowExtend \in DecryptKey(last.channel.Key).Perms
  /\ \/ last.op = "subscribe" /\ last.channel.ChannelType # ChannelInvalid
     \/ last.op = "publish" /\ last.channel.ChannelType = ChannelStatic
NoEffect ==
  /\ subs = last.subsBefore /\ store = last.storeBefore /\ links = last.linksBefore
  /\ last.sent = <<>> /\ last.replay = <<>> /\ last.msg = <<>> /\ last.query = <<>> /\ last.reply = <<>>
RequiredPermission == IF last.op = "subscribe" THEN AllowRead ELSE AllowWrite

\* C2 as stated: with any key that has the Extend bit, whatever its other bits, both
\* operations return UnauthorizedExt and have no effect.
C2_ExtendAlwaysExt == ExtendKeyUsed => (last.res = ErrUnauthorizedExt /\ NoEffect)

\* C2, amended: with a key that has the Extend bit and that authorize accepts for the
\* operation (Read to subscribe, Write to publish) both return UnauthorizedExt;
\* with an Extend key that authorize refuses they return Unauthorized; either way
\* nothing is inserted into the trie, written to the store or fanned out.
C2_ExtendRefused ==
  ExtendKeyUsed =>
    /\ last.res = IF authorize(last.channel, RequiredPermission).allowed
                    THEN ErrUnauthorizedExt ELSE ErrUnauthorized
    /\ NoEffect

\* a subscribe with a key that has Read, Write, Store, Load and Extend
C2_Witness ==
  /\ ExtendKeyUsed /\ last.op = "subscribe" /\ last.res = ErrUnauthorizedExt
  /\ {AllowRead, AllowLoad} \subseteq DecryptKey(last.channel.Key).Perms
  /\ subs # {} /\ NoEffect

\* C3: an onPublish to a channel that parses and is not static returns Forbidden and
\* reaches neither the emitter router, the store nor the fan-out.
C3_NonStaticForbidden ==
  (last.op = "publish" /\ last.channel.ChannelType = ChannelWildcard) =>
    (last.res = ErrForbidden /\ ~last.routed /\ NoEffect)

\* a retained publish to a wildcard channel with a writing key, while there are subscribers
C3_Witness ==
  /\ last.op = "publish" /\ last.channel.ChannelType = ChannelWildcard
  /\ last.res = ErrForbidden /\ last.retain
  /\ authorize(last.channel, AllowWrite).allowed
  /\ Lookup(subs, <<Small(1), Small(11)>>) # {}

\* the last call was an authorized onSubscribe (one that got past its refusals)
Subscribed == last.op = "subscribe" /\ last.res \in {Ok, ErrServerError}
\* the limit and the window the topic of the last call asks for
TopicLimit == IF "last=2" \in Range(last.topic) THEN 2 ELSE 1
TopicWindow == <<IF "from=1" \in Range(last.topic) THEN 1 ELSE 0, IF "until=2" \in Range(last.topic) THEN 2 ELSE 0>>

\* C4: an authorized onSubscribe with a Load key queries the store once with
\* (ssid, t0, t1, limit), limit being the last option or 1, and sends what the store
\* returned to the subscriber alone, in order; without Load it queries and replays
\* nothing; the subscription is applied in both cases.
C4_ReplayPolicy ==
  Subscribed =>
    /\ <<last.conn, CallSsid>> \in subs
    /\ last.sent = <<>>
    /\ IF AllowLoad \in DecryptKey(last.channel.Key).Perms
         THEN /\ last.query = << <<CallSsid, TopicWindow[1], TopicWindow[2], TopicLimit>> >>
              /\ ~last.storeFailed =>
                   last.replay = Query(last.storeBefore, CallSsid, TopicWindow[1], TopicWindow[2], TopicLimit)
         ELSE last.query = <<>> /\ last.replay = <<>> /\ last.res = Ok

\* a subscribe with last=2 that replayed two different stored messages
C4_Witness ==
  /\ Subscribed /\ TopicLimit = 2
  /\ Len(last.replay) = 2 /\ last.replay[1] # last.replay[2]
  /\ last.replay = last.storeBefore

\* C5: when the store query of onSubscribe fails, it returns ServerError, replays
\* nothing, and the connection is subscribed all the same: a later matching publish of
\* another connection is delivered to it.
C5_FailedQueryKeepsSubscription ==
  /\ (last.op = "subscribe" /\ last.storeFailed) =>
       /\ last.res = ErrServerError
       /\ last.replay = <<>>
       /\ <<last.conn, CallSsid>> \in subs
  /\ Published =>
       \A e \in errSubs :
         (e[1] # last.conn /\ Matches(e[2], CallSsid)) => Count(last.sent, e[1]) = 1

\* a publish delivered to a connection whose only subscribe ended in ServerError
C5_Witness ==
  /\ Published
  /\ \E e \in errSubs :
       /\ e[1] # last.conn /\ Matches(e[2], CallSsid)
       /\ \A o \in okSubs : o[1] # e[1]
       /\ Count(last.sent, e[1]) = 1

\* the ttl option of the channel of the last call: <<value, present>>
TtlOption ==
  LET at == {i \in 1..Len(last.channel.Options) : last.channel.Options[i].Key = "ttl"}
  IN IF at = {} THEN <<Num(0), FALSE>>
     ELSE <<last.channel.Options[CHOOSE i \in at : \A j \in at : i <= j].Value, TRUE>>
MsgTTL == last.msg[1].TTL

\* C7: a ttl option, whatever its value, is the message TTL whatever the retain
\* flag; without one the TTL is RetainedTTL if retain is set, else 0.
C7_TtlOptionAlwaysWins ==
  Published =>
    IF TtlOption[2] THEN TtlOption[1] = Int64(0, MsgTTL)
    ELSE MsgTTL = (IF last.retain THEN RetainedTTL ELSE Small(0))

\* C7, what onPublish computes: a ttl option with a value > 0 sets the message TTL to
\* the low 32 bits of that value, whatever the retain flag; with no ttl option, or one
\* whose value is not > 0, the TTL is RetainedTTL if retain is set, else 0.
C7_TtlResolution ==
  Published =>
    IF TtlOption[2] /\ Positive(TtlOption[1]) THEN MsgTTL = TtlOption[1].Low
    ELSE MsgTTL = (IF last.retain THEN RetainedTTL ELSE Small(0))

\* a retained publish with ttl=3: the TTL is 3
C7_Witness ==
  /\ Published /\ last.retain /\ TtlOption = <<Num(3), TRUE>> /\ MsgTTL = Small(3)

\* the body of the reply the last call sent, when it sent a reply of that kind
Replied(kind) == last.op = "publish" /\ last.reply # <<>> /\ last.reply[1].Body.Kind = kind
ReplyBody == last.reply[1].Body
\* the key strings of the channels the connection of the last call has linked
LinkedKeys == {links[last.conn][k][1] : k \in DOMAIN links[last.conn]}

\* C9: every value of the links map the me request returns is the SafeString form of
\* the stored link, and contains the key of no channel the connection linked.
C9_MeHidesKeys ==
  Replied("me") =>
    /\ DOMAIN ReplyBody.Links = DOMAIN links[last.conn]
    /\ \A k \in DOMAIN ReplyBody.Links :
         /\ ReplyBody.Links[k] = SafeString(ParseChannel(links[last.conn][k]))
         /\ Range(ReplyBody.Links[k]) \cap (LinkedKeys \cup KeyStrings) = {}

\* a me reply on a connection with a plain link and a private link
C9_Witness ==
  /\ Replied("me")
  /\ Cardinality(DOMAIN ReplyBody.Links) = 2
  /\ \E k \in DOMAIN links[last.conn] : links[last.conn][k][1] = "kEc1"
  /\ \E k \in DOMAIN links[last.conn] : links[last.conn][k][1] = "kA"

\* the channel string K a successful link request binds its name to
LinkedChannel ==
  LET req == last.request[1]
  IN IF req.Private THEN String(ExtendKey(req.Key, req.Channel, last.conn, AllowAll)[2])
     ELSE <<req.Key>> \o req.Channel
LinkDone == Replied("link") /\ ReplyBody.Status = 200

\* C10: after a successful link of name n to channel K, a me request on the connection
\* reports links[n] = ParseChannel(K).SafeString(), the channel the link reply returned;
\* a link under an existing name replaces its value, and other names are unchanged.
C10_MeAfterLink ==
  LinkDone =>
    LET n == last.request[1].Name
        me == onMe(last.conn, links[last.conn]).resp.Links
        before == last.linksBefore[last.conn]
    IN /\ n \in DOMAIN me
       /\ me[n] = SafeString(ParseChannel(LinkedChannel))
       /\ me[n] = ReplyBody.Channel
       /\ DOMAIN links[last.conn] = DOMAIN before \cup {n}
       /\ \A m \in DOMAIN before \ {n} : links[last.conn][m] = before[m]
       /\ \A c \in Conns \ {last.conn} : links[c] = last.linksBefore[c]

\* a private link that replaced the value of its name, another name being linked
C10_Witness ==
  /\ LinkDone /\ last.request[1].Private
  /\ LET n == last.request[1].Name
         before == last.linksBefore[last.conn]
     IN /\ n \in DOMAIN before /\ before[n] # links[last.conn][n]
        /\ DOMAIN before \ {n} # {}

\* the last call was a keygen request with a JSON body; its body and its parent key
KeygenAsked == last.op = "publish" /\ last.routed /\ last.channel.Query = <<requestKeygen>>
                 /\ last.request[1].Json
ParentKey == DecryptKey(last.request[1].Key)
MasterParent == Decrypts(last.request[1].Key) /\ ~ParentKey.Expired /\ ParentKey.Master
\* the permissions the flag characters of the request stand for, unknown ones ignored
FlagPerms ==
  LET has(ch) == \E i \in 1..Len(last.request[1].Type) : last.request[1].Type[i] = ch
  IN {p \in AllowAll :
        \/ (p = AllowRead /\ has("r"))
        \/ (p = AllowWrite /\ has("w"))
        \/ (p = AllowStore /\ has("s"))
        \/ (p = AllowLoad /\ has("l"))
        \/ (p = AllowPresence /\ has("p"))
        \/ (p = AllowExtend /\ has("e"))
        \/ (p = AllowExecute /\ has("x"))}
RequestedExpiry == IF last.request[1].TTL = 0 THEN 0 ELSE last.env.now + last.request[1].TTL
\* the reply carries a new key with the permissions and the expiry the request asks for
MintedAsAsked ==
  /\ ReplyBody.Status = 200 /\ ReplyBody.Key # "" /\ Len(ReplyBody.Minted) = 1
  /\ ReplyBody.Minted[1].Perms = FlagPerms
  /\ ReplyBody.Minted[1].Expires = RequestedExpiry
\* the reply is the error, and carries no key
RepliedError(code) ==
  /\ ReplyBody.Kind = "error" /\ ReplyBody.Code = code
  /\ ReplyBody.Key = "" /\ ReplyBody.Minted = <<>>
UnauthorizedParent ==
  \/ ~Decrypts(last.request[1].Key) \/ ParentKey.Expired
  \/ (~ParentKey.Master /\ AllowExtend \notin ParentKey.Perms)

\* C11: a keygen request with a master parent that decrypts and is not expired yields
\* status 200 with a key whose permissions are access(type) and whose expiry is epoch
\* zero for ttl = 0 and now + ttl otherwise; a parent that is neither master nor has
\* Extend, or is expired or does not decrypt, yields Unauthorized and no key.
C11_MasterAlwaysMints ==
  KeygenAsked =>
    /\ MasterParent => MintedAsAsked
    /\ UnauthorizedParent => RepliedError(ErrUnauthorized)

\* C11, amended: the same when the key provider creates the key; when CreateKey returns
\* an error, the reply is that error and carries no key.
C11_KeygenFromMaster ==
  KeygenAsked =>
    /\ MasterParent =>
         IF last.env.created = Ok THEN MintedAsAsked ELSE RepliedError(last.env.created)
    /\ UnauthorizedParent => RepliedError(ErrUnauthorized)

\* a master key minted a key for "r?xr" with ttl = 5 at time 200: Read and Execute, expiring at 205
C11_Witness ==
  /\ KeygenAsked /\ MasterParent /\ MintedAsAsked
  /\ last.request[1].Type = <<"r", "?", "x", "r">>
  /\ ReplyBody.Minted[1].Perms = {AllowRead, AllowExecute}
  /\ ReplyBody.Minted[1].Expires = 205

\* ---- presence requests
\* the last call was a presence request with a JSON body, answered or still gathering
PresenceAsked ==
  /\ last.op \in {"publish", "survey"} /\ last.routed
  /\ Len(last.channel.Query) >= 1 /\ last.channel.Query[1] = requestPresence
  /\ last.request[1].Json
PresenceKey == DecryptKey(last.request[1].Key)
PresenceChannel == ParseChannel(<<"emitter">> \o last.request[1].Channel)
\* the error the order of the checks asks for, if any
ExpectedRefusal ==
  IF ~Decrypts(last.request[1].Key) \/ AllowPresence \notin PresenceKey.Perms \/ PresenceKey.Expired
    THEN <<ErrUnauthorized>>
  ELSE IF PresenceKey.Contract \notin Contracts THEN <<ErrNotFound>>
  ELSE IF ~PresenceKey.Signed THEN <<ErrUnauthorized>>
  ELSE IF PresenceChannel.ChannelType = ChannelInvalid THEN <<ErrBadRequest>>
  ELSE <<>>
\* the presence subscriptions of the connection of the last call, in a trie
PresenceSubs(trie) ==
  {e \in trie : e[1] = last.conn /\ Len(e[2]) >= 2 /\ e[2][1] = Small(0) /\ e[2][2] = requestPresence}

\* C12: a presence request is refused in the order key (does not decrypt, no Presence
\* permission, expired: Unauthorized), contract (unknown: NotFound), validation of the
\* key (Unauthorized), channel (does not parse: BadRequest); a refused request leaves
\* the presence subscriptions of the connection as they were and sends no survey.
C12_PresenceRefusalOrder ==
  PresenceAsked /\ ExpectedRefusal # <<>> =>
    /\ last.op = "publish" /\ last.reply # <<>>
    /\ last.reply[1].Body.Kind = "error" /\ last.reply[1].Body.Code = ExpectedRefusal[1]
    /\ subs = last.subsBefore /\ PresenceSubs(subs) = PresenceSubs(last.subsBefore)
    /\ last.gather = <<>> /\ survey[last.conn] = <<>>

\* a key of an unknown contract that the contract would not validate either, on a channel
\* that does not parse, sent by a connection that watches presence: NotFound
C12_Witness ==
  /\ PresenceAsked /\ last.request[1].Key = "kPnu" /\ last.request[1].Channel = <<>>
  /\ last.request[1].Changes = "true" /\ last.request[1].Status = "true"
  /\ last.reply # <<>> /\ last.reply[1].Body.Code = ErrNotFound
  /\ PresenceSubs(subs) # {}

\* ---- the gather of a presence status request
\* the last call is a presence status request whose Gather has returned
Gathered == last.op = "publish" /\ last.gather # <<>>
\* the entries of a sequence of responses that decode, in order
RECURSIVE Decoded(_)
Decoded(rs) ==
  IF rs = <<>> THEN <<>>
  ELSE (IF Head(rs).Decodes THEN Head(rs).Info ELSE <<>>) \o Decoded(Tail(rs))
\* the who list is the subscribers the node had for the ssid when the survey was sent,
\* then the entries of the decodable responses that arrived before the deadline, and
\* nothing of a response that arrived later
WhoAsGathered ==
  LET g == last.gather[1]
      who == last.reply[1].Body.Who
      local == Lookup(g.sv.trie, g.sv.ssid)
      n == Cardinality(local)
  IN /\ last.reply # <<>> /\ last.reply[1].Body.Event = "status"
     /\ Len(who) >= n
     /\ {who[i] : i \in 1..n} = {[ID |-> c, Username |-> g.sv.names[c]] : c \in local}
     /\ SubSeq(who, n + 1, Len(who)) = Decoded(g.inbox)
     /\ \A i \in 1..Len(g.late) : Range(g.late[i].Info) \cap Range(who) = {}
     /\ g.elapsed <= GatherDeadline
\* a gather that is waiting has not passed its deadline
WithinDeadline == \A c \in Conns : survey[c] # <<>> => survey[c][1].elapsed <= GatherDeadline

\* C13: a presence status query always returns, at the latest when the 1000 ms deadline
\* of the gather expires, whether or not any peer answers; its who list is the local
\* subscribers of the ssid followed by the entries of every decodable response received
\* before the deadline, and has no entry of a response that arrived after it.
C13_GatherReturns ==
  /\ [](WithinDeadline /\ (Gathered => WhoAsGathered))
  /\ \A c \in Conns : (survey[c] # <<>>) ~> (survey[c] = <<>> /\ Gathered /\ last.conn = c)

\* the gather returned with the local subscriber, the two entries of the peer that
\* answered in time, and nothing of the peer that answered after the deadline
C13_Witness ==
  /\ Gathered /\ last.gather[1].elapsed = GatherDeadline
  /\ Len(last.gather[1].inbox) = 1 /\ last.gather[1].inbox[1].Peer = "n3"
  /\ last.gather[1].inbox[1].Decodes
  /\ Len(last.gather[1].late) = 1 /\ last.gather[1].late[1].Decodes
  /\ Len(last.reply[1].Body.Who) = 3
  /\ last.reply[1].Body.Who[1] = [ID |-> "c2", Username |-> "al"]

\* ---- the changes toggle and the status reply
PresenceAuthorized == PresenceAsked /\ ExpectedRefusal = <<>>
\* the presence ssid of (contract, query) of the request, held by the connection
PresenceEntry ==
  <<last.conn, <<Small(0), requestPresence, Small(PresenceKey.Contract)>> \o PresenceChannel.Query>>
\* the handler has just run: it returned, or it waits for its survey
Dispatched == last.op = "survey" \/ (last.op = "publish" /\ last.gather = <<>>)
StatusReply ==
  /\ last.reply # <<>> /\ last.reply[1].Body.Kind = "presence"
  /\ last.reply[1].Body.Event = "status" /\ last.reply[1].Body.Time = last.env.now
  /\ last.reply[1].Body.Channel = last.request[1].Channel

LinkAsked == last.op = "publish" /\ last.routed /\ last.channel.Query = <<requestLink>>
               /\ last.request[1].Json
\* the name of the request is one or two letters or digits
NameMatches ==
  LET chars == NameChars[last.request[1].Name]
  IN chars # <<>> /\ Len(chars) <= 2 /\ Range(chars) \subseteq AlphaNum

\* C14: a link request whose name does not match ^[A-Za-z0-9]{1,2}$ (empty, longer than
\* two characters, or with any other character) is rejected with LinkInvalid, and the
\* links map and the subscriptions of the connection are as they were.
C14_BadNameLinkInvalid ==
  LinkAsked /\ ~NameMatches =>
    /\ last.reply # <<>> /\ last.reply[1].Body.Kind = "error"
    /\ last.reply[1].Body.Code = ErrLinkInvalid
    /\ links = last.linksBefore /\ subs = last.subsBefore

\* a request to link and subscribe under a three-letter name, on a connection that has
\* a link already, is rejected
C14_Witness ==
  /\ LinkAsked /\ last.request[1].Name = "abc" /\ last.request[1].Subscribe
  /\ last.reply # <<>> /\ last.reply[1].Body.Code = ErrLinkInvalid
  /\ DOMAIN links[last.conn] # {}

\* ---- the replies of the router
\* the last call was a publish on an emitter channel, answered or waiting for its survey
EmitterPublish == last.op \in {"publish", "survey"} /\ last.routed
Verb == last.channel.Query[1]
\* the response of the handler of the verb, computed on the state before the call
HandlerResult ==
  LET c == last.conn
      req == last.request[1]
  IN IF Verb = requestKeygen THEN onKeyGen(c, req, last.env).resp
     ELSE IF Verb = requestMe THEN onMe(c, last.linksBefore[c]).resp
     ELSE IF Verb = requestLink THEN onLink(c, req, last.linksBefore[c], last.subsBefore).resp
     ELSE IF Verb = requestPresence /\ (~req.Json \/ ExpectedRefusal # <<>>)
       THEN ErrorResponse(IF req.Json THEN ExpectedRefusal[1] ELSE ErrBadRequest)
     ELSE IF Verb = requestPresence THEN [last.reply[1].Body EXCEPT !.Kind = "presence"]
     ELSE ErrorResponse(ErrNotFound)
\* a presence request that passed every check and asks for no status
SilentPresence ==
  /\ Len(last.channel.Query) >= 1 /\ Verb = requestPresence
  /\ last.request[1].Json /\ ExpectedRefusal = <<>> /\ last.request[1].Status = "false"

\* C15: a publish on an emitter channel produces at most one reply, on the emitter topic
\* of the request and with Request equal to the message id of the publish; an empty
\* query or an unknown verb replies NotFound, keygen, presence, link and me reply with
\* the result or the error of their handler, and the only case without a reply is a
\* successful presence request with status = false.
C15_OneReplyPerRequest ==
  EmitterPublish =>
    /\ Len(last.reply) <= 1
    /\ \A i \in 1..Len(last.reply) :
         /\ last.reply[i].Topic = String(last.channel)
         /\ ByteLen(last.topic) > 2 => last.reply[i].Topic = last.topic
         /\ last.reply[i].Request = last.id
    /\ last.op = "survey" =>
         Verb = requestPresence /\ ExpectedRefusal = <<>> /\ last.request[1].Status # "false"
    /\ last.op = "publish" =>
         /\ (last.reply = <<>>) <=> SilentPresence
         /\ last.reply # <<>> =>
              IF Len(last.channel.Query) < 1
                \/ Verb \notin {requestKeygen, requestPresence, requestLink, requestMe}
                THEN last.reply[1].Body = ErrorResponse(ErrNotFound)
              ELSE last.reply[1].Body = HandlerResult

\* the reply to a keygen request with message id 2 that a non-master key sent
C15_Witness ==
  /\ EmitterPublish /\ Verb = requestKeygen /\ last.id = 2 /\ last.request[1].Key = "kA"
  /\ last.reply # <<>> /\ last.reply[1].Request = 2
  /\ last.reply[1].Topic = <<"emitter", "keygen">>
  /\ last.reply[1].Body.Code = ErrUnauthorized

\* ---- keys with the Extend bit
HasExtend(keyString) == AllowExtend \in DecryptKey(keyString).Perms
\* the entries for a regular ssid that the last call put in the trie
Inserted == {e \in subs \ last.subsBefore : e[2][1] # Small(0)}

\* C16: whatever the operations on a connection (subscribe, link with subscribe = true
\* on a plain or private link, presence, publish), no connection is put in the trie
\* for a regular ssid by way of a key with the Extend bit, and no message is fanned out
\* by way of such a key.
C16_ExtendKeyNeverUsed ==
  /\ last.op = "subscribe" /\ Inserted # {} => ~HasExtend(last.channel.Key)
  /\ LinkDone /\ Inserted # {} => ~HasExtend(LinkedChannel[1])
  /\ last.op = "publish" /\ ~last.routed /\ last.sent # <<>> => ~HasExtend(last.channel.Key)

\* what the code does: onSubscribe and onPublish never use a key with the Extend bit,
\* and onLink with subscribe = true subscribes with any key that authorizes Read
C16_ExtendKeyOnlyByLink ==
  /\ last.op = "subscribe" /\ Inserted # {} => ~HasExtend(last.channel.Key)
  /\ last.op = "publish" /\ ~last.routed /\ last.sent # <<>> => ~HasExtend(last.channel.Key)
  /\ LinkDone /\ last.request[1].Subscribe /\ AllowRead \in DecryptKey(LinkedChannel[1]).Perms
       /\ ~DecryptKey(LinkedChannel[1]).Expired =>
       \E e \in subs : e[1] = last.conn /\ e[2][1] = Small(DecryptKey(LinkedChannel[1]).Contract)

\* ---- publishes on the emitter channel
\* the last call was a publish whose channel is static and has the literal key emitter
ToEmitter ==
  /\ last.op \in {"publish", "survey"}
  /\ last.channel.ChannelType = ChannelStatic /\ last.channel.Key = "emitter"

DirectPublish(c, topic, trie) ==
  LET channel == ParseChannel(topic)
      key == DecryptKey(channel.Key)
      ssid == <<Small(key.Contract)>> \o channel.Query
      outcome(res, ss, to) == [res |-> res, ssid |-> ss, sent |-> to]
  IN IF channel.ChannelType = ChannelInvalid THEN outcome(ErrBadRequest, <<>>, {})
     ELSE IF channel.ChannelType # ChannelStatic THEN outcome(ErrForbidden, <<>>, {})
     ELSE IF channel.Key = "emitter" THEN outcome(Ok, <<>>, {})
     ELSE IF ~authorize(channel, AllowWrite).allowed THEN outcome(ErrUnauthorized, <<>>, {})
     ELSE IF AllowExtend \in key.Perms THEN outcome(ErrUnauthorizedExt, <<>>, {})
     ELSE outcome(Ok, <<ssid>>,
                  Lookup(trie, ssid) \ (IF "me=0" \in Range(topic) THEN {c} ELSE {}))
\* the last publish did what the publish to the channel string does
PublishedAs(topic) ==
  LET direct == DirectPublish(last.conn, topic, last.subsBefore)
  IN /\ last.res = direct.res
     /\ [i \in 1..Len(last.msg) |-> last.msg[i].Ssid] = direct.ssid
     /\ Range(last.sent) = direct.sent
ShortTopic == last.op = "publish" /\ ByteLen(last.topic) <= 2
LinkName == IF last.topic = <<>> THEN "" ELSE last.topic[1]

\* C19: an onPublish whose topic has at most two bytes is resolved through the links of
\* the connection before it is parsed: with a link of that name it behaves as a publish
\* to the stored channel string (same result, same ssid, same fan-out); with no such
\* link, or a stored string that does not parse, it returns BadRequest and fans nothing
\* out; a longer topic is never looked up in the links.
C19_PublishThroughLink ==
  /\ ShortTopic /\ LinkName \in DOMAIN last.linksBefore[last.conn] =>
       PublishedAs(last.linksBefore[last.conn][LinkName])
  /\ ShortTopic /\ ( \/ LinkName \notin DOMAIN last.linksBefore[last.conn]
                      \/ ParseChannel(last.linksBefore[last.conn][LinkName]).ChannelType = ChannelInvalid ) =>
       last.res = ErrBadRequest /\ last.sent = <<>> /\ last.msg = <<>>
  /\ last.op = "publish" /\ ByteLen(last.topic) > 2 => PublishedAs(last.topic)

\* a publish to the short topic of a link reached the subscriber of the linked channel
C19_Witness ==
  /\ ShortTopic /\ LinkName \in DOMAIN last.linksBefore[last.conn]
  /\ last.res = Ok /\ last.sent # <<>>

\* ---- the order of replayed and live messages
\* C17: every message replayed by an onSubscribe is sent to the subscribing connection
\* before any live message of the ssid published after that onSubscribe returned; only
\* the messages of publishes in progress during the onSubscribe may come before the
\* replayed messages or between them.
C17_ReplayBeforeLaterLive ==
  \A c \in Conns : \A i, j \in 1..Len(race.log[c]) :
    (i < j /\ race.log[c][i].kind = "live" /\ race.log[c][j].kind = "replay")
      => race.log[c][i].call < race.log[c][j].call

\* a live message of a publish that was in progress during the onSubscribe came before
\* the replayed one, and a message published after the onSubscribe returned came last
C17_Witness ==
  /\ Len(race.log["c1"]) = 3
  /\ race.log["c1"][1].kind = "live" /\ race.log["c1"][1].call = 0
  /\ race.log["c1"][2].kind = "replay" /\ race.log["c1"][2].call = 1
  /\ race.log["c1"][3].kind = "live" /\ race.log["c1"][3].call = 1

\* ---- a stored publish concurrent with an onSubscribe
\* the positions of the log of c that hold the message, sent in the given way
Sends(c, kind, msg) ==
  {i \in 1..Len(race.log[c]) : race.log[c][i].kind = kind /\ race.log[c][i].msg = msg}
LoggedMessages(c) == {race.log[c][i].msg : i \in 1..Len(race.log[c])}

\* C21: when an onSubscribe with a Load key runs concurrently with a stored publish on
\* the same ssid from another connection, the subscriber receives the published message
\* at most once: never both as a replayed message and as a live delivery.
C21_NeverReplayedAndLive ==
  \A c \in Conns : \A m \in LoggedMessages(c) :
    Cardinality(Sends(c, "replay", m)) + Cardinality(Sends(c, "live", m)) <= 1

\* C21, amended: the subscriber receives the message at most once as a replayed message
\* and at most once as a live delivery, and both only when the onPublish began before
\* the onSubscribe returned.
C21_OncePerPath ==
  \A c \in Conns : \A m \in LoggedMessages(c) :
    /\ Cardinality(Sends(c, "replay", m)) <= 1
    /\ Cardinality(Sends(c, "live", m)) <= 1
    /\ \A i \in Sends(c, "live", m), j \in Sends(c, "replay", m) :
         race.log[c][i].call < race.log[c][j].call

\* the subscriber got the message of a concurrent publish twice: replayed from the store
\* and then live
C21_Witness ==
  /\ Len(race.log["c1"]) = 2
  /\ race.log["c1"][1].kind = "replay" /\ race.log["c1"][2].kind = "live"
  /\ race.log["c1"][1].msg = race.log["c1"][2].msg
  /\ race.log["c1"][1].msg.TTL # Small(0)

\* ---- refused calls
Refusals == {ErrBadRequest, ErrUnauthorized, ErrUnauthorizedExt, ErrForbidden}
\* the last call was an onSubscribe, onUnsubscribe or onPublish that returned a refusal
Refused == last.op \in {"subscribe", "unsubscribe", "publish"} /\ last.res \in Refusals

\* C22: an onSubscribe, onUnsubscribe or onPublish that returns BadRequest, Unauthorized,
\* UnauthorizedExt or Forbidden leaves the trie, the store, the links map of the
\* connection and the ingress and egress counters of the contract as they were, and
\* sends no message to any connection.
C22_RefusedHasNoEffect ==
  Refused =>
    /\ subs = last.subsBefore /\ store = last.storeBefore /\ links = last.linksBefore
    /\ last.stats = <<>>
    /\ last.sent = <<>> /\ last.replay = <<>> /\ last.reply = <<>>
    /\ last.msg = <<>> /\ last.query = <<>>

\* an onUnsubscribe with an expired key, by a connection that is subscribed while the
\* store holds a message, was refused
C22_Witness ==
  /\ Refused /\ last.op = "unsubscribe" /\ last.res = ErrUnauthorized
  /\ \E e \in subs : e[1] = last.conn
  /\ store # <<>>

====
